---- MODULE Spec2Model ----
(***************************************************************************)
(* Model of package protorand (rand.go): a seedable generator that fills   *)
(* a dynamic protobuf message with random values, driven by the message    *)
(* descriptor, recursing into nested messages under a depth budget.        *)
(***************************************************************************)
EXTENDS Integers, Sequences, FiniteSets, TLC

(***************************************************************************)
(* Bounds of the model.                                                    *)
(***************************************************************************)
\* number of distinct raw outputs of the random source
RawRange == 6
\* length of the (cyclic) output stream a seed expands to
TapeLen == 2
\* largest seed value tried
MaxSeed == 11
\* modelled width, in bits, of a "32-bit" integer; a "64-bit" one is twice that
W32 == 4

W64 == 2 * W32

RECURSIVE Pow2(_)
Pow2(n) == IF n = 0 THEN 1 ELSE 2 * Pow2(n - 1)

\* Ranges of the Go integer types at the modelled widths.
MinInt32 == 0 - Pow2(W32 - 1)
MaxInt32 == Pow2(W32 - 1) - 1
MaxUint32 == Pow2(W32) - 1
MinInt64 == 0 - Pow2(W64 - 1)
MaxInt64 == Pow2(W64 - 1) - 1
MaxUint64 == Pow2(W64) - 1

(***************************************************************************)
(* Program constants.                                                      *)
(***************************************************************************)
MaxDepth == 16

Chars == << "a","b","c","d","e","f","g","h","i","j","k","l","m",
            "n","o","p","q","r","s","t","u","v","w","x","y","z",
            "A","B","C","D","E","F","G","H","I","J","K","L","M",
            "N","O","P","Q","R","S","T","U","V","W","X","Y","Z",
            "0","1","2","3","4","5","6","7","8","9" >>

\* make([]rune, 10) in randString
StringLen == 10

(***************************************************************************)
(* math/rand as the code uses it.  A generator is a stream of raw outputs  *)
(* fixed by the seed, and a position in it; every draw reads the raw       *)
(* output at the position and advances the position.  Every draw returns   *)
(* the advanced generator, the value v and the number n of raw outputs it  *)
(* consumed.                                                               *)
(***************************************************************************)
Seeds == 0..MaxSeed

RECURSIVE PowRaw(_)
PowRaw(n) == IF n = 0 THEN 1 ELSE RawRange * PowRaw(n - 1)

\* rand.New(rand.NewSource(seed)): the stream is a function of the seed alone.
NewSource(seed) ==
  [tape |-> [i \in 1..TapeLen |-> (seed \div PowRaw(i - 1)) % RawRange],
   pos  |-> 1]

Raw(r) == r.tape[r.pos]

Advance(r) == [r EXCEPT !.pos = (r.pos % TapeLen) + 1]

\* a raw output spread over 0..max, both ends included
Spread(u, max) == (u * max) \div (RawRange - 1)

\* (*rand.Rand).Intn(n): an integer in [0, n)
Intn(r, n) == [rand |-> Advance(r), v |-> Raw(r) % n, n |-> 1]

\* (*rand.Rand).Int31(): a non-negative 31-bit integer
Int31(r) == [rand |-> Advance(r), v |-> Spread(Raw(r), MaxInt32), n |-> 1]

\* (*rand.Rand).Int63(): a non-negative 63-bit integer
Int63(r) == [rand |-> Advance(r), v |-> Spread(Raw(r), MaxInt64), n |-> 1]

\* (*rand.Rand).Uint32(): any 32-bit unsigned integer
Uint32(r) == [rand |-> Advance(r), v |-> Spread(Raw(r), MaxUint32), n |-> 1]

\* (*rand.Rand).Uint64(): any 64-bit unsigned integer
Uint64(r) == [rand |-> Advance(r), v |-> Spread(Raw(r), MaxUint64), n |-> 1]

\* (*rand.Rand).Float32() / Float64(): a fraction <<num, den>> in [0, 1)
Float32(r) == [rand |-> Advance(r), v |-> <<Raw(r), RawRange>>, n |-> 1]

Float64(r) == [rand |-> Advance(r), v |-> <<Raw(r), RawRange>>, n |-> 1]

(***************************************************************************)
(* The random primitives of ProtoRand.                                     *)
(***************************************************************************)
\* randInt32 as int32(p.rand.Uint32()): the draw reinterpreted as signed
randInt32_Signed(r) ==
  LET d == Uint32(r)
  IN [d EXCEPT !.v = IF d.v > MaxInt32 THEN d.v - Pow2(W32) ELSE d.v]

randInt32(r) == Int31(r)

randInt64(r) == Int63(r)

randUint32(r) == Uint32(r)

randUint64(r) == Uint64(r)

randFloat32(r) == Float32(r)

randFloat64(r) == Float64(r)

\* b[i] = Chars[p.rand.Intn(len(Chars))] for each i; n counts the draws
RECURSIVE randStringLoop(_, _, _, _)
randStringLoop(r, b, i, n) ==
  IF i > StringLen THEN [rand |-> r, v |-> b, n |-> n]
  ELSE LET d == Intn(r, Len(Chars))
       IN randStringLoop(d.rand, Append(b, Chars[d.v + 1]), i + 1, n + d.n)

randString(r) == randStringLoop(r, <<>>, 1, 0)

randBytes(r) == randString(r)

randBool(r) == LET d == Int31(r) IN [rand |-> d.rand, v |-> (d.v % 2 = 0), n |-> d.n]

(***************************************************************************)
(* The schema provider (protoreflect), read-only.  A field descriptor has  *)
(* a number, a kind, a cardinality, the name of its containing oneof (""   *)
(* for none), and the message or enum type of its value.  For a map field  *)
(* kind, msg and enum describe fd.MapValue() and keyKind describes         *)
(* fd.MapKey().                                                            *)
(***************************************************************************)
FD(num, kind, card, oneof, msg, enum, keyKind) ==
  [number |-> num, kind |-> kind, card |-> card, oneof |-> oneof,
   msg |-> msg, enum |-> enum, keyKind |-> keyKind]

Scalar(num, kind) == FD(num, kind, "singular", "", "", "", "")

\* every value of protoreflect.Kind
AllKinds ==
  {"BoolKind", "EnumKind", "Int32Kind", "Sint32Kind", "Uint32Kind",
   "Int64Kind", "Sint64Kind", "Uint64Kind", "Sfixed32Kind", "Fixed32Kind",
   "FloatKind", "Sfixed64Kind", "Fixed64Kind", "DoubleKind", "StringKind",
   "BytesKind", "MessageKind", "GroupKind"}

\* the kinds whose value is a nested message (fd.Message() is not nil)
NestedKinds == {"MessageKind", "GroupKind"}

\* fd.Enum().Values(): the declared numbers of each enum, in declaration order
EnumValues ==
  [Color |-> <<0, 10, 20>>,
   Flag  |-> <<0, 3>>,
   Unit  |-> <<0>>,
   Solo  |-> <<1>>]

\* the message types of the schema
Descriptors ==
  [Scalars |->
     [fields |-> << Scalar(1, "Int32Kind"), Scalar(2, "Int64Kind"),
                    Scalar(3, "Sint32Kind"), Scalar(4, "Sint64Kind"),
                    Scalar(5, "Uint32Kind"), Scalar(6, "Uint64Kind"),
                    Scalar(7, "Fixed32Kind"), Scalar(8, "Fixed64Kind"),
                    Scalar(9, "Sfixed32Kind"), Scalar(10, "Sfixed64Kind"),
                    Scalar(11, "FloatKind"), Scalar(12, "DoubleKind"),
                    Scalar(13, "StringKind"), Scalar(14, "BoolKind"),
                    FD(15, "EnumKind", "singular", "", "", "Color", ""),
                    Scalar(16, "BytesKind") >>,
      oneofs |-> << >>],
   Enums |->
     [fields |-> << FD(1, "EnumKind", "singular", "", "", "Color", ""),
                    FD(2, "EnumKind", "singular", "", "", "Flag", ""),
                    FD(3, "EnumKind", "singular", "", "", "Unit", ""),
                    FD(4, "EnumKind", "singular", "", "", "Solo", ""),
                    Scalar(5, "Int32Kind") >>,
      oneofs |-> << >>],
   Collections |->
     [fields |-> << FD(1, "Int32Kind", "list", "", "", "", ""),
                    FD(2, "StringKind", "map", "", "", "", "Int64Kind"),
                    FD(3, "EnumKind", "list", "", "", "Color", ""),
                    FD(4, "EnumKind", "map", "", "", "Flag", "BoolKind"),
                    FD(5, "FloatKind", "singular", "form", "", "", ""),
                    FD(6, "BytesKind", "singular", "form", "", "", "") >>,
      oneofs |-> << [name |-> "form", fields |-> <<5, 6>>] >>],
   Choice |->
     [fields |-> << FD(1, "Int32Kind", "singular", "kind", "", "", ""),
                    FD(2, "BoolKind", "singular", "kind", "", "", ""),
                    FD(3, "EnumKind", "singular", "kind", "", "Color", ""),
                    Scalar(4, "Uint32Kind"),
                    FD(5, "Sint64Kind", "singular", "alt", "", "", ""),
                    FD(6, "MessageKind", "singular", "alt", "Enums", "", ""),
                    FD(7, "Int32Kind", "singular", "_opt", "", "", "") >>,
      oneofs |-> << [name |-> "kind", fields |-> <<1, 2, 3>>],
                    [name |-> "alt",  fields |-> <<5, 6>>],
                    [name |-> "_opt", fields |-> <<7>>] >>],
   Node |->
     [fields |-> << Scalar(1, "Int32Kind"),
                    FD(2, "MessageKind", "singular", "", "Node", "", "") >>,
      oneofs |-> << >>],
   Link |->
     [fields |-> << FD(1, "MessageKind", "singular", "tail", "Link", "", ""),
                    FD(2, "BoolKind", "singular", "tail", "", "", "") >>,
      oneofs |-> << [name |-> "tail", fields |-> <<1, 2>>] >>],
   Ping |->
     [fields |-> << FD(1, "MessageKind", "singular", "", "Pong", "", "") >>,
      oneofs |-> << >>],
   Pong |->
     [fields |-> << FD(1, "MessageKind", "singular", "", "Ping", "", ""),
                    Scalar(2, "BoolKind") >>,
      oneofs |-> << >>],
   Tree |->
     [fields |-> << FD(1, "MessageKind", "list", "", "Tree", "", "") >>,
      oneofs |-> << >>],
   Dict |->
     [fields |-> << FD(1, "MessageKind", "map", "", "Dict", "", "Int32Kind") >>,
      oneofs |-> << >>],
   Legacy |->
     [fields |-> << Scalar(1, "Int32Kind"),
                    FD(2, "GroupKind", "singular", "", "Unit0", "", ""),
                    Scalar(3, "BoolKind") >>,
      oneofs |-> << >>],
   LegacyList |->
     [fields |-> << FD(1, "GroupKind", "list", "", "Unit0", "", "") >>,
      oneofs |-> << >>],
   LegacyChoice |->
     [fields |-> << FD(1, "GroupKind", "singular", "pick", "Unit0", "", ""),
                    FD(2, "Uint64Kind", "singular", "pick", "", "", "") >>,
      oneofs |-> << [name |-> "pick", fields |-> <<1, 2>>] >>],
   Wrapper |->
     [fields |-> << Scalar(1, "BoolKind"),
                    FD(2, "MessageKind", "singular", "", "Legacy", "", ""),
                    FD(3, "MessageKind", "list", "", "Wrapper", "", "") >>,
      oneofs |-> << >>],
   WrapperMap |->
     [fields |-> << FD(1, "MessageKind", "map", "", "LegacyChoice", "", "StringKind") >>,
      oneofs |-> << >>],
   Unit0 |->
     [fields |-> << >>, oneofs |-> << >>]]

MessageNames == DOMAIN Descriptors

\* fd.IsList(), fd.IsMap()
IsList(fd) == fd.card = "list"

IsMap(fd) == fd.card = "map"

\* fd.MapKey(), fd.MapValue(): the descriptors of a map field's key and value
MapKey(fd) == FD(1, fd.keyKind, "singular", "", "", "", "")

MapValue(fd) == FD(2, fd.kind, "singular", "", fd.msg, fd.enum, "")

(***************************************************************************)
(* dynamicpb messages: the type and the fields that have been set.         *)
(***************************************************************************)
\* dynamicpb.NewMessage(mds): no field set
NewMessage(mds) == [type |-> mds, fields |-> << >>]

\* the nil *dynamicpb.Message returned with an error
NilMessage == [type |-> "", fields |-> << >>]

\* dm.Has(fd), for a field the generator assigned
Has(dm, num) == num \in DOMAIN dm.fields

\* dm.Set(fd, value)
Set(dm, fd, value) ==
  [dm EXCEPT !.fields =
     [n \in (DOMAIN dm.fields) \cup {fd.number} |->
        IF n = fd.number THEN value ELSE dm.fields[n]]]

\* dm.Mutable(fd).List() / .Map(): the field's collection, empty when unset
Mutable(dm, fd) == IF Has(dm, fd.number) THEN dm.fields[fd.number] ELSE << >>

\* mp.Set(key, value)
MapSet(mp, key, value) ==
  [k \in (DOMAIN mp) \cup {key} |-> IF k = key THEN value ELSE mp[k]]

(***************************************************************************)
(* The generator.  The recursion of newDynamicProtoRand is run on an       *)
(* explicit call stack: a machine m holds the generator state (rand), the  *)
(* number of draws made (n), the events of the run (trace) and the stack   *)
(* of the active calls of newDynamicProtoRand, the innermost last.  A      *)
(* frame holds the call's arguments (mds, allowedDepth), its locals        *)
(* (populatedOneOfField, dm, the field index k, the map key drawn for      *)
(* field k) and the error it is about to return (err).  The events are:    *)
(*   "call"        a recursive call: k the message type, x the caller's    *)
(*                 allowedDepth, y the callee's                            *)
(*   "empty"       the depth was used up: k the message type, x the        *)
(*                 allowedDepth                                            *)
(*   "enum"        an enum choice: k the enum, x the number of declared    *)
(*                 values, y the index drawn (-1 for none), z the number   *)
(*                 returned, n the draws                                   *)
(*   "unsupported" the default case of the switch: k the kind, x the       *)
(*                 allowedDepth                                            *)
(***************************************************************************)
Event(ev, k, x, y, z, n) == [ev |-> ev, k |-> k, x |-> x, y |-> y, z |-> z, n |-> n]

\* the error of the switch's default case
UnexpectedType(kind) == <<"unexpected type: ", kind>>

NoError == << >>

\* chooseEnumValueRandomly drawing among all the declared values
chooseEnumValueRandomly_AllValues(r, values) ==
  LET ln == Len(values)
  IN IF ln <= 1
       THEN [rand |-> r, v |-> 0, n |-> 0, idx |-> 0 - 1]
       ELSE LET d == Intn(r, ln)
            IN [rand |-> d.rand, v |-> values[d.v + 1], n |-> d.n, idx |-> d.v]

chooseEnumValueRandomly(r, values) ==
  LET ln == Len(values)
  IN IF ln <= 1
       THEN [rand |-> r, v |-> 0, n |-> 0, idx |-> 0 - 1]
       ELSE LET d == Intn(r, ln - 1)
            IN [rand |-> d.rand, v |-> values[d.v + 1], n |-> d.n, idx |-> d.v]

chooseOneOfFieldRandomly(r, oneOf) ==
  LET ln == Len(oneOf.fields)
  IN IF ln <= 1
       THEN [rand |-> r, v |-> oneOf.fields[1], n |-> 0]
       ELSE LET d == Intn(r, ln)
            IN [rand |-> d.rand, v |-> oneOf.fields[d.v + 1], n |-> d.n]

\* the switch without its BytesKind case
DispatchKinds_NoBytes ==
  {"Int32Kind", "Int64Kind", "Sint32Kind", "Sint64Kind", "Uint32Kind",
   "Uint64Kind", "Fixed32Kind", "Fixed64Kind", "Sfixed32Kind", "Sfixed64Kind",
   "FloatKind", "DoubleKind", "StringKind", "BoolKind", "EnumKind",
   "MessageKind"}

\* the case labels of getRandValue's switch
DispatchKinds ==
  {"Int32Kind", "Int64Kind", "Sint32Kind", "Sint64Kind", "Uint32Kind",
   "Uint64Kind", "Fixed32Kind", "Fixed64Kind", "Sfixed32Kind", "Sfixed64Kind",
   "FloatKind", "DoubleKind", "StringKind", "BoolKind", "EnumKind",
   "BytesKind", "MessageKind"}

\* the cases of the switch that draw a scalar
ScalarValue(r, kind) ==
  CASE kind = "Int32Kind"    -> randInt32(r)
    [] kind = "Int64Kind"    -> randInt64(r)
    [] kind = "Sint32Kind"   -> randInt32(r)
    [] kind = "Sint64Kind"   -> randInt64(r)
    [] kind = "Uint32Kind"   -> randUint32(r)
    [] kind = "Uint64Kind"   -> randUint64(r)
    [] kind = "Fixed32Kind"  -> randUint32(r)
    [] kind = "Fixed64Kind"  -> randUint64(r)
    [] kind = "Sfixed32Kind" -> randInt32(r)
    [] kind = "Sfixed64Kind" -> randInt64(r)
    [] kind = "FloatKind"    -> randFloat32(r)
    [] kind = "DoubleKind"   -> randFloat64(r)
    [] kind = "StringKind"   -> randString(r)
    [] kind = "BoolKind"     -> randBool(r)
    [] kind = "BytesKind"    -> randBytes(r)

\* What getRandValue does up to its return or its recursive call: the value
\* v and the error err it returns, or call = TRUE when it calls
\* newDynamicProtoRand(fd.Message(), depth) first.
Drawn(r, v, err, n, trace) ==
  [rand |-> r, v |-> v, err |-> err, n |-> n, trace |-> trace,
   call |-> FALSE, depth |-> 0]

\* case protoreflect.EnumKind
EnumKindValue(r, fd) ==
  LET values == EnumValues[fd.enum]
      c == chooseEnumValueRandomly(r, values)
  IN Drawn(c.rand, c.v, NoError, c.n,
           << Event("enum", fd.enum, Len(values), c.idx, c.v, c.n) >>)

\* MessageKindValue recursing while allowedDepth >= 0
MessageKindValue_AtZero(r, fd, allowedDepth) ==
  IF allowedDepth >= 0
    THEN [rand |-> r, v |-> << >>, err |-> NoError, n |-> 0,
          trace |-> << Event("call", fd.msg, allowedDepth, allowedDepth - 1, 0, 0) >>,
          call |-> TRUE, depth |-> allowedDepth - 1]
    ELSE Drawn(r, NewMessage(fd.msg), NoError, 0,
               << Event("empty", fd.msg, allowedDepth, 0, 0, 0) >>)

\* MessageKindValue recursing only while allowedDepth > 1
MessageKindValue_StopsEarly(r, fd, allowedDepth) ==
  IF allowedDepth > 1
    THEN [rand |-> r, v |-> << >>, err |-> NoError, n |-> 0,
          trace |-> << Event("call", fd.msg, allowedDepth, allowedDepth - 1, 0, 0) >>,
          call |-> TRUE, depth |-> allowedDepth - 1]
    ELSE Drawn(r, NewMessage(fd.msg), NoError, 0,
               << Event("empty", fd.msg, allowedDepth, 0, 0, 0) >>)

\* case protoreflect.MessageKind, up to the recursive call
MessageKindValue(r, fd, allowedDepth) ==
  IF allowedDepth > 0
    THEN [rand |-> r, v |-> << >>, err |-> NoError, n |-> 0,
          trace |-> << Event("call", fd.msg, allowedDepth, allowedDepth - 1, 0, 0) >>,
          call |-> TRUE, depth |-> allowedDepth - 1]
    ELSE Drawn(r, NewMessage(fd.msg), NoError, 0,
               << Event("empty", fd.msg, allowedDepth, 0, 0, 0) >>)

\* MessageKindReturn without its error check
MessageKindReturn_DropsError(rm, err) == [v |-> rm, err |-> NoError]

\* case protoreflect.MessageKind, from the return of the recursive call
\* (rm, err) on
MessageKindReturn(rm, err) ==
  IF err # NoError THEN [v |-> << >>, err |-> err]
  ELSE [v |-> rm, err |-> NoError]

\* a scalar case returns the value drawn (d) and no error
Scalar1(d) == Drawn(d.rand, d.v, NoError, d.n, << >>)

\* the closure getRandValue of newDynamicProtoRand
getRandValue(r, fd, allowedDepth) ==
  IF fd.kind \notin DispatchKinds
    THEN Drawn(r, << >>, UnexpectedType(fd.kind), 0,
               << Event("unsupported", fd.kind, allowedDepth, 0, 0, 0) >>)
  ELSE IF fd.kind = "MessageKind" THEN MessageKindValue(r, fd, allowedDepth)
  ELSE IF fd.kind = "EnumKind" THEN EnumKindValue(r, fd)
  ELSE Scalar1(ScalarValue(r, fd.kind))

\* the first loop: one member chosen per oneof, by the oneof's name
RECURSIVE OneofLoop(_, _, _)
OneofLoop(st, oneOfs, i) ==
  IF i > Len(oneOfs) THEN st
  ELSE LET oneOf == oneOfs[i]
           c == chooseOneOfFieldRandomly(st.rand, oneOf)
       IN OneofLoop([rand |-> c.rand, n |-> st.n + c.n,
                     populatedOneOfField |->
                       MapSet(st.populatedOneOfField, oneOf.name, c.v)],
                    oneOfs, i + 1)

\* SkipField with its comparison inverted
SkipField_Inverted(fd, populatedOneOfField) ==
  /\ fd.oneof # ""
  /\ populatedOneOfField[fd.oneof] = fd.number

\* a field of a oneof that was not chosen is skipped
SkipField(fd, populatedOneOfField) ==
  /\ fd.oneof # ""
  /\ populatedOneOfField[fd.oneof] # fd.number

\* if fd.IsList() { ... }, from the return of getRandValue (g) on; f is the frame
PopulateList(f, fd, g) ==
  IF g.err # NoError THEN [f EXCEPT !.err = g.err]
  ELSE LET list == Mutable(f.dm, fd)
       IN [f EXCEPT !.dm = Set(f.dm, fd, Append(list, g.v)), !.k = f.k + 1]

\* PopulateMap without mp.Set(key, value)
PopulateMap_NoEntry(f, fd, g) ==
  IF g.err # NoError THEN [f EXCEPT !.err = g.err]
  ELSE LET mp == Mutable(f.dm, fd)
       IN [f EXCEPT !.dm = Set(f.dm, fd, mp), !.k = f.k + 1]

\* if fd.IsMap() { ... }, from the return of getRandValue(fd.MapValue()) on;
\* f.key is the key drawn before
PopulateMap(f, fd, g) ==
  IF g.err # NoError THEN [f EXCEPT !.err = g.err]
  ELSE LET mp == Mutable(f.dm, fd)
       IN [f EXCEPT !.dm = Set(f.dm, fd, MapSet(mp, f.key, g.v)), !.k = f.k + 1]

\* the singular field at the end of the loop body, from the return of
\* getRandValue on
PopulateSingular(f, fd, g) ==
  IF g.err # NoError THEN [f EXCEPT !.err = g.err]
  ELSE [f EXCEPT !.dm = Set(f.dm, fd, g.v), !.k = f.k + 1]

\* the rest of the loop body once the field's value is there
Populate(f, fd, g) ==
  IF IsList(fd) THEN PopulateList(f, fd, g)
  ELSE IF IsMap(fd) THEN PopulateMap(f, fd, g)
  ELSE PopulateSingular(f, fd, g)

Top(m) == m.stack[Len(m.stack)]

SetTop(m, f) == [m EXCEPT !.stack[Len(m.stack)] = f]

\* the draws, the events and the generator state of g are the machine's
Account(m, g) ==
  [m EXCEPT !.rand = g.rand, !.n = m.n + g.n, !.trace = m.trace \o g.trace]

\* a call of newDynamicProtoRand(mds, allowedDepth), up to the field loop
Enter(m, mds, allowedDepth) ==
  LET sel == OneofLoop([rand |-> m.rand, n |-> 0, populatedOneOfField |-> << >>],
                       Descriptors[mds].oneofs, 1)
      f == [mds |-> mds, allowedDepth |-> allowedDepth,
            populatedOneOfField |-> sel.populatedOneOfField,
            dm |-> NewMessage(mds), k |-> 1, key |-> << >>, err |-> NoError]
  IN [m EXCEPT !.rand = sel.rand, !.n = m.n + sel.n, !.stack = Append(m.stack, f)]

\* the innermost call returns (nil, err) or (dm, nil); its caller, if any,
\* goes on in getRandValue's MessageKind case and then in its loop body
Return(m) ==
  LET f == Top(m)
      rm == IF f.err # NoError THEN NilMessage ELSE f.dm
      rest == SubSeq(m.stack, 1, Len(m.stack) - 1)
  IN IF rest = << >>
       THEN [m EXCEPT !.stack = rest, !.done = TRUE, !.msg = rm, !.err = f.err]
       ELSE LET caller == rest[Len(rest)]
                fd == Descriptors[caller.mds].fields[caller.k]
                g == MessageKindReturn(rm, f.err)
            IN [m EXCEPT !.stack = [rest EXCEPT ![Len(rest)] = Populate(caller, fd, g)]]

\* the loop body once getRandValue(vfd) has returned g or has come to its
\* recursive call: the call is entered, or the value is stored in field fd
ValueDrawn(m, fd, vfd, g) ==
  IF g.call THEN Enter(Account(m, g), vfd.msg, g.depth)
  ELSE SetTop(Account(m, g), Populate(Top(m), fd, g))

\* getRandValue(vfd) for field fd
Value(m, fd, vfd) ==
  ValueDrawn(m, fd, vfd, getRandValue(m.rand, vfd, Top(m).allowedDepth))

\* the IsMap branch once getRandValue(fd.MapKey()) has returned key
KeyDrawn(m, fd, key) ==
  IF key.err # NoError
    THEN SetTop(Account(m, key), [Top(m) EXCEPT !.err = key.err])
    ELSE Value(SetTop(Account(m, key), [Top(m) EXCEPT !.key = key.v]),
               fd, MapValue(fd))

\* the key of a map field is drawn before its value
KeyThenValue(m, fd) ==
  KeyDrawn(m, fd, getRandValue(m.rand, MapKey(fd), Top(m).allowedDepth))

\* one iteration of the field loop of the innermost call, or its return
Step(m) ==
  LET f == Top(m)
      fds == Descriptors[f.mds].fields
  IN IF f.err # NoError \/ f.k > Len(fds) THEN Return(m)
     ELSE LET fd == fds[f.k]
          IN IF SkipField(fd, f.populatedOneOfField)
               THEN SetTop(m, [f EXCEPT !.k = f.k + 1])
             ELSE IF IsMap(fd) THEN KeyThenValue(m, fd)
             ELSE Value(m, fd, fd)

RECURSIVE Run(_)
Run(m) == IF m.done THEN m ELSE Run(Step(m))

\* no call is active on generator r
Machine(r) ==
  [rand |-> r, n |-> 0, trace |-> << >>, stack |-> << >>, done |-> FALSE,
   msg |-> NilMessage, err |-> NoError]

\* what the outermost call returned, and the generator it leaves
Returned(m) ==
  [rand |-> m.rand, msg |-> m.msg, err |-> m.err, n |-> m.n, trace |-> m.trace]

newDynamicProtoRand(r, mds, allowedDepth) ==
  Returned(Run(Enter(Machine(r), mds, allowedDepth)))

\* (*ProtoRand).NewDynamicProtoRand
NewDynamicProtoRandOp(r, mds) == newDynamicProtoRand(r, mds, MaxDepth)

\* Seed reseeding the stream but keeping the position of the old generator
SeedOp_KeepsPosition(p, seed) == [NewSource(seed) EXCEPT !.pos = p.pos]

\* (*ProtoRand).Seed: p.rand is replaced; p is the generator before the call
SeedOp(p, seed) == NewSource(seed)

(***************************************************************************)
(* Gen: the dynamic message merged into a new message of the input's type. *)
(***************************************************************************)
\* the descriptor of the field of message type mds that has number num
FieldOf(mds, num) ==
  LET fds == Descriptors[mds].fields
  IN fds[CHOOSE i \in 1..Len(fds) : fds[i].number = num]

\* proto.Merge(dst, src): every field set in src is merged into dst
RECURSIVE Merge(_, _)
Merge(dst, src) ==
  [dst EXCEPT !.fields =
     [num \in (DOMAIN dst.fields) \cup (DOMAIN src.fields) |->
        IF num \notin DOMAIN src.fields THEN dst.fields[num]
        ELSE LET fd == FieldOf(src.type, num)
                 sv == src.fields[num]
                 dv == Mutable(dst, fd)
             IN IF IsList(fd) THEN dv \o sv
                ELSE IF IsMap(fd)
                  THEN [k \in (DOMAIN dv) \cup (DOMAIN sv) |->
                          IF k \in DOMAIN sv THEN sv[k] ELSE dv[k]]
                ELSE IF fd.kind \in NestedKinds
                  THEN Merge(IF Has(dst, num) THEN dv ELSE NewMessage(fd.msg), sv)
                ELSE sv]]

\* Gen once NewDynamicProtoRand has returned res
GenReturn(in, res) ==
  IF res.err # NoError
    THEN [res EXCEPT !.msg = NilMessage]
    ELSE [res EXCEPT !.msg = Merge(NewMessage(in), res.msg)]

\* (*ProtoRand).Gen; in is the message type of the input
GenOp(r, in) == GenReturn(in, NewDynamicProtoRandOp(r, in))

(***************************************************************************)
(* The state machine: one ProtoRand and the calls made on it.              *)
(*   rand  p.rand                                                          *)
(*   used  whether a generation has drawn from this ProtoRand              *)
(*   out   the last call (op) and what it returned: for Seed the seed it   *)
(*         set; for a generation its descriptor (mds), the message and     *)
(*         the error, the events and the number of draws of the run, the   *)
(*         seed of the Seed call that came right before it (NoSeed for     *)
(*         none) and whether the ProtoRand had been used before that       *)
(***************************************************************************)
VARIABLES rand, used, out

vars == <<rand, used, out>>

NoSeed == 0 - 1

NoOutput(op, seed) ==
  [op |-> op, mds |-> "", seed |-> seed, used |-> FALSE, msg |-> NilMessage,
   err |-> NoError, n |-> 0, trace |-> << >>]

Output(op, mds, res) ==
  [op |-> op, mds |-> mds,
   seed |-> IF out.op = "Seed" THEN out.seed ELSE NoSeed,
   used |-> used, msg |-> res.msg, err |-> res.err, n |-> res.n,
   trace |-> res.trace]

\* the message types Gen is called with
GenInputs == {"Scalars", "Collections", "Choice", "Node", "Dict", "Wrapper"}

\* New(): the seed is the clock
Init ==
  /\ rand \in {NewSource(t) : t \in Seeds}
  /\ used = FALSE
  /\ out = NoOutput("New", NoSeed)

Seed(seed) ==
  /\ rand' = SeedOp(rand, seed)
  /\ out' = NoOutput("Seed", seed)
  /\ UNCHANGED used

\* a generation has returned res: the generator has moved on
Generate(op, mds, res) ==
  /\ rand' = res.rand
  /\ used' = TRUE
  /\ out' = Output(op, mds, res)

NewDynamicProtoRand(mds) ==
  Generate("NewDynamicProtoRand", mds, NewDynamicProtoRandOp(rand, mds))

Gen(in) == Generate("Gen", in, GenOp(rand, in))

Next ==
  \/ \E seed \in Seeds : Seed(seed)
  \/ \E mds \in MessageNames : NewDynamicProtoRand(mds)
  \/ \E in \in GenInputs : Gen(in)

Spec == Init /\ [][Next]_vars

(***************************************************************************)
(* What the properties read off the state.                                 *)
(***************************************************************************)
\* the last call was a generation / one that returned a message
Generated == out.op \in {"NewDynamicProtoRand", "Gen"}

Succeeded == Generated /\ out.err = NoError

\* the values of map mp, the keys in any order
RECURSIVE MapValues(_, _)
MapValues(mp, keys) ==
  IF keys = {} THEN << >>
  ELSE LET k == CHOOSE x \in keys : TRUE
       IN <<mp[k]>> \o MapValues(mp, keys \ {k})

\* the messages held by field fds[i] of message e.m and the fields after it,
\* each with its nesting depth
RECURSIVE Children(_, _, _)
Children(e, fds, i) ==
  IF i > Len(fds) THEN << >>
  ELSE LET fd == fds[i]
           val == e.m.fields[fd.number]
           held == IF fd.kind \notin NestedKinds \/ ~Has(e.m, fd.number) THEN << >>
                   ELSE IF IsList(fd) THEN val
                   ELSE IF IsMap(fd) THEN MapValues(val, DOMAIN val)
                   ELSE <<val>>
       IN [j \in 1..Len(held) |-> [m |-> held[j], d |-> e.d + 1]]
            \o Children(e, fds, i + 1)

\* every message of the tree, with its nesting depth (the root has depth 0)
RECURSIVE Walk(_, _)
Walk(todo, acc) ==
  IF todo = << >> THEN acc
  ELSE LET e == Head(todo)
       IN Walk(Tail(todo) \o Children(e, Descriptors[e.m.type].fields, 1),
               Append(acc, e))

Messages == IF Succeeded THEN Walk(<< [m |-> out.msg, d |-> 0] >>, << >>) ELSE << >>

\* the messages newDynamicProtoRand populated: those it was called for,
\* which are the ones down to depth MaxDepth
Populated == SelectSeq(Messages, LAMBDA e : e.d <= MaxDepth)

SeqRange(q) == {q[i] : i \in 1..Len(q)}

HasEvent(ev) == \E i \in 1..Len(out.trace) : out.trace[i].ev = ev

(***************************************************************************)
(* Oneof groups.                                                           *)
(***************************************************************************)
\* the members of oneOf that are set in message m
MembersSet(m, oneOf) == {num \in SeqRange(oneOf.fields) : Has(m, num)}

\* C1: in every message newDynamicProtoRand populated (the top-level one and
\* every nested one), every oneof group has exactly one member set.
C1_ExactlyOneMemberPerOneof ==
  \A i \in 1..Len(Populated) :
    LET m == Populated[i].m
    IN \A j \in 1..Len(Descriptors[m.type].oneofs) :
         Cardinality(MembersSet(m, Descriptors[m.type].oneofs[j])) = 1

\* C1 witness: a Choice whose three groups each got a member, the second one
\* a nested message
C1_Witness ==
  /\ Succeeded
  /\ out.mds = "Choice"
  /\ Has(out.msg, 3)
  /\ Has(out.msg, 6)

(***************************************************************************)
(* Seeding.                                                                *)
(***************************************************************************)
\* the generators New() can return
FreshGenerators == {NewSource(t) : t \in Seeds}

\* the generation out.op of out.mds, run on generator g
Replay(g) ==
  IF out.op = "Gen" THEN GenOp(g, out.mds) ELSE NewDynamicProtoRandOp(g, out.mds)

\* the generation ref returned what out holds and left the generator as it is
SameAsOut(ref) ==
  /\ ref.msg = out.msg
  /\ ref.err = out.err
  /\ ref.trace = out.trace
  /\ ref.n = out.n
  /\ ref.rand = rand

\* C2: a generation that follows Seed(s) returns what the same generation
\* returns on any fresh generator seeded with s: the same message, error,
\* events and number of draws, and it leaves the same generator state.
C2_SeedThenGenerateIsAFunctionOfTheSeed ==
  (Generated /\ out.seed # NoSeed) =>
    \A g \in {SeedOp(p, out.seed) : p \in FreshGenerators} : SameAsOut(Replay(g))

\* C2 witness: a seeded generation on a generator that had drawn before
C2_Witness ==
  /\ Succeeded
  /\ out.seed # NoSeed
  /\ out.used
  /\ out.n > TapeLen

(***************************************************************************)
(* Recursion.                                                              *)
(***************************************************************************)
\* C3: every generation comes to an end, and every recursive call of
\* newDynamicProtoRand it made was made with allowedDepth above 0 and passed
\* a strictly smaller, non-negative allowedDepth.
C3_RecursionDepthDecreases ==
  Generated =>
    \A i \in 1..Len(out.trace) :
      LET e == out.trace[i]
      IN e.ev = "call" => (e.x > 0 /\ e.y < e.x /\ e.y >= 0 /\ e.x <= MaxDepth)

\* C3 witness: mutually recursive types, generated until the depth was used up
C3_Witness ==
  /\ Succeeded
  /\ out.mds = "Ping"
  /\ \E i \in 1..Len(out.trace) : out.trace[i].ev = "empty" /\ out.trace[i].x = 0
  /\ Cardinality({i \in 1..Len(out.trace) : out.trace[i].ev = "call"}) = MaxDepth

\* the number of messages below m along field num
RECURSIVE ChainDepth(_, _)
ChainDepth(m, num) ==
  IF Has(m, num) THEN 1 + ChainDepth(m.fields[num], num) ELSE 0

\* the message d levels below m along field num
RECURSIVE MessageAt(_, _, _)
MessageAt(m, num, d) ==
  IF d = 0 THEN m ELSE MessageAt(m.fields[num], num, d - 1)

\* a self-referential message was generated: Node through its field 2, which
\* is always set, or Link through its field 1, a oneof member
SelfField == IF out.mds = "Node" THEN 2 ELSE 1

\* C4 as stated: the chain is at most MaxDepth deep and the message at depth
\* MaxDepth is empty.
C4_ChainEndsAtMaxDepth ==
  (Succeeded /\ out.mds = "Node") =>
    /\ ChainDepth(out.msg, 2) <= MaxDepth
    /\ MessageAt(out.msg, 2, MaxDepth) = NewMessage("Node")

\* C4 amended: the chain is at most MaxDepth + 1 deep; the message at depth
\* MaxDepth + 1, when there is one, is empty; and when the self-typed field is
\* not in a oneof the chain is exactly MaxDepth + 1 deep, the message at depth
\* MaxDepth having all its fields set.
C4_ChainEndsBelowMaxDepth ==
  (Succeeded /\ out.mds \in {"Node", "Link"}) =>
    LET depth == ChainDepth(out.msg, SelfField)
    IN /\ depth <= MaxDepth + 1
       /\ depth = MaxDepth + 1 =>
            MessageAt(out.msg, SelfField, MaxDepth + 1) = NewMessage(out.mds)
       /\ out.mds = "Node" =>
            /\ depth = MaxDepth + 1
            /\ Has(MessageAt(out.msg, 2, MaxDepth), 1)
            /\ Has(MessageAt(out.msg, 2, MaxDepth), 2)

\* C4 witness: a Node chain that reaches depth MaxDepth + 1
C4_Witness ==
  /\ Succeeded
  /\ out.mds = "Node"
  /\ ChainDepth(out.msg, 2) = MaxDepth + 1
  /\ MessageAt(out.msg, 2, MaxDepth) # NewMessage("Node")

(***************************************************************************)
(* Repeated and map fields.                                                *)
(***************************************************************************)
\* C5: in every message newDynamicProtoRand populated, a repeated field that
\* is set holds exactly one element and a map field that is set holds exactly
\* one entry, and every repeated or map field is set.
C5_CollectionsAreSingletons ==
  \A i \in 1..Len(Populated) :
    LET m == Populated[i].m
        fds == Descriptors[m.type].fields
    IN \A k \in 1..Len(fds) :
         /\ IsList(fds[k]) =>
              Has(m, fds[k].number) /\ Len(m.fields[fds[k].number]) = 1
         /\ IsMap(fds[k]) =>
              /\ Has(m, fds[k].number)
              /\ Cardinality(DOMAIN m.fields[fds[k].number]) = 1

\* C5 witness: a repeated field of messages whose innermost element was made
\* with no depth left
C5_Witness ==
  /\ Succeeded
  /\ out.mds = "Tree"
  /\ HasEvent("empty")
  /\ Len(Populated) = MaxDepth + 1

(***************************************************************************)
(* Enums.                                                                  *)
(***************************************************************************)
\* C6: for an enum of N >= 2 declared values the index drawn is in 0..N-2 and
\* the number returned is the one declared at that index; a Color field is
\* only ever its first or second value.
C6_LastEnumValueIsNeverChosen ==
  /\ \A i \in 1..Len(out.trace) :
       LET e == out.trace[i]
       IN (e.ev = "enum" /\ e.x >= 2) =>
            /\ e.y \in 0..(e.x - 2)
            /\ e.z = EnumValues[e.k][e.y + 1]
  /\ (Succeeded /\ out.mds = "Enums") =>
       out.msg.fields[1] \in {EnumValues.Color[1], EnumValues.Color[2]}

\* C6 witness: the value before the last one of Color was chosen
C6_Witness ==
  /\ Succeeded
  /\ out.mds = "Enums"
  /\ out.msg.fields[1] = EnumValues.Color[2]

\* C10 as stated: for an enum of one declared value the number returned is the
\* declared one, and no draw is made.
C10_SingleEnumValueIsChosen ==
  \A i \in 1..Len(out.trace) :
    LET e == out.trace[i]
    IN (e.ev = "enum" /\ e.x = 1) => (e.z = EnumValues[e.k][1] /\ e.n = 0)

(***************************************************************************)
(* Errors.                                                                 *)
(***************************************************************************)
\* C7: a generation that reached a field whose kind the switch does not
\* handle returns that error and the nil message.
C7_UnsupportedKindAbortsTheCall ==
  Generated =>
    /\ \A i \in 1..Len(out.trace) :
         out.trace[i].ev = "unsupported" =>
           /\ out.err = UnexpectedType(out.trace[i].k)
           /\ out.msg = NilMessage
    /\ out.err # NoError => out.msg = NilMessage

\* C7 witness: Gen of a message type whose nested message has the field
C7_Witness ==
  /\ Generated
  /\ out.mds = "Wrapper"
  /\ out.op = "Gen"
  /\ \E i \in 1..Len(out.trace) :
       out.trace[i].ev = "unsupported" /\ out.trace[i].x < MaxDepth

\* a message type none of whose fields, map values included, is a message
NoNestedMessage(mds) ==
  \A k \in 1..Len(Descriptors[mds].fields) :
    Descriptors[mds].fields[k].kind \notin NestedKinds

\* C8: the switch's default case is only ever reached for a nested-message
\* kind, and the generation of a message type without nested messages returns
\* no error and a message with every field set that is not in a oneof.
C8_NoNestedMessageNoError ==
  /\ \A i \in 1..Len(out.trace) :
       out.trace[i].ev = "unsupported" => out.trace[i].k \in NestedKinds
  /\ (Generated /\ NoNestedMessage(out.mds)) =>
       /\ out.err = NoError
       /\ out.msg.type = out.mds
       /\ \A k \in 1..Len(Descriptors[out.mds].fields) :
            LET fd == Descriptors[out.mds].fields[k]
            IN fd.oneof = "" => Has(out.msg, fd.number)

\* C8 witness: a message with a field of every kind but the nested ones
C8_Witness ==
  /\ Succeeded
  /\ out.mds = "Scalars"
  /\ {Descriptors.Scalars.fields[k].kind : k \in 1..Len(Descriptors.Scalars.fields)}
       = AllKinds \ NestedKinds
  /\ DOMAIN out.msg.fields = 1..16

(***************************************************************************)
(* Integer ranges.                                                         *)
(***************************************************************************)
Signed32 == {"Int32Kind", "Sint32Kind", "Sfixed32Kind"}

Signed64 == {"Int64Kind", "Sint64Kind", "Sfixed64Kind"}

\* the values of the singular fields of message m whose kind is in kinds
ValuesOf(m, kinds) ==
  LET fds == Descriptors[m.type].fields
  IN {m.fields[fds[k].number] :
        k \in {j \in 1..Len(fds) : /\ fds[j].kind \in kinds
                                   /\ fds[j].card = "singular"
                                   /\ Has(m, fds[j].number)}}

\* the value randInt32 / randInt64 returns at the i-th draw after Seed(seed)
RECURSIVE Skip(_, _)
Skip(r, i) == IF i = 0 THEN r ELSE Skip(Advance(r), i - 1)

\* C9 as stated: the signed kinds range over all of the signed type, so some
\* seed, at some draw, gives the least value of the type, a negative one.
C9_SignedDrawsAreFullRange ==
  /\ \E seed \in Seeds, i \in 0..(TapeLen - 1) :
       randInt32(Skip(SeedOp(rand, seed), i)).v = MinInt32
  /\ \E seed \in Seeds, i \in 0..(TapeLen - 1) :
       randInt64(Skip(SeedOp(rand, seed), i)).v = MinInt64

\* C9 amended: the value of a field of a signed 32-bit kind is in
\* 0..MaxInt32 and the value of a field of a signed 64-bit kind is in
\* 0..MaxInt64: it is never negative.
C9_SignedDrawsAreNonNegative ==
  \A i \in 1..Len(Populated) :
    /\ ValuesOf(Populated[i].m, Signed32) \subseteq 0..MaxInt32
    /\ ValuesOf(Populated[i].m, Signed64) \subseteq 0..MaxInt64

\* C9 witness: the largest value of the 32-bit draw was generated
C9_Witness ==
  /\ Succeeded
  /\ out.mds = "Scalars"
  /\ MaxInt32 \in ValuesOf(out.msg, Signed32)
  /\ ValuesOf(out.msg, Signed64) # {}

====
